---- MODULE Spec2Model ----
(***************************************************************************)
(* A model of processor/processor.go of scc: the construction of the       *)
(* per-language features (ProcessConstants), the flag normalisation        *)
(* (processFlags), the loading of the language table (loadDatabase) and    *)
(* the pipeline that Process wires up: walker -> file reader workers ->    *)
(* file processor workers -> summariser, joined by bounded channels.       *)
(***************************************************************************)
EXTENDS Integers, Sequences, FiniteSets, TLC

\* ------------------------------------------------------------------ bounds
\* longest ComplexityChecks / LineComment list of a generated language
MaxTokens == 2
\* longest Extensions list of a generated language
MaxExts == 2
\* most root paths given on the command line
MaxPaths == 2
\* most files below one root path
MaxFiles == 2
\* largest channel capacity
MaxCap == 2
\* largest worker pool
MaxWorkers == 2

\* ------------------------------------------------------------ Go's values
\* a Go byte has 8 bits: byte(0) .. byte(255)
ByteRange == 256

EmptyMap == [x \in {} |-> x]

\* m[k] = v on a Go map
Put(m, k, v) == (k :> v) @@ m

Range(s) == {s[i] : i \in DOMAIN s}

\* a | b on bytes, bit by bit
BitOrOf[a \in Nat, b \in Nat] ==
    IF a = 0 THEN b
    ELSE IF b = 0 THEN a
    ELSE (IF a % 2 = 1 \/ b % 2 = 1 THEN 1 ELSE 0) + 2 * BitOrOf[a \div 2, b \div 2]

BitOr(a, b) == BitOrOf[a, b]

\* a & b on bytes, bit by bit
BitAndOf[a \in Nat, b \in Nat] ==
    IF a = 0 \/ b = 0 THEN 0
    ELSE (IF a % 2 = 1 /\ b % 2 = 1 THEN 1 ELSE 0) + 2 * BitAndOf[a \div 2, b \div 2]

BitAnd(a, b) == BitAndOf[a, b]

\* every sequence over S of length at most n
SeqsUpTo(S, n) == UNION {[1..k -> S] : k \in 0..n}

\* the orders in which a Go range statement may visit the keys S of a map
Orders(S) ==
    {o \in [1..Cardinality(S) -> S] : \A i, j \in DOMAIN o : o[i] = o[j] => i = j}

\* --------------------------------------------------------------- the Trie
\* A trie is the map from each inserted token (a byte sequence) to its
\* terminal node: the token type and, for a paired token, the closing token.
T_COMPLEXITY == "T_COMPLEXITY"
T_SLCOMMENT == "T_SLCOMMENT"
T_MLCOMMENT == "T_MLCOMMENT"
T_STRING == "T_STRING"

NoClose == <<>>

EmptyTrie == EmptyMap

\* Trie.Insert(tokenType, token): the token's path, ending in tokenType
Insert(trie, tokenType, token) ==
    Put(trie, token,
        [Type |-> tokenType,
         Close |-> IF token \in DOMAIN trie THEN trie[token].Close ELSE NoClose])

\* Trie.InsertClose(tokenType, openToken, closeToken): the opener's path, the
\* closer attached to its terminal node
InsertClose(trie, tokenType, openToken, closeToken) ==
    Put(trie, openToken, [Type |-> tokenType, Close |-> closeToken])

\* the first bytes of the tokens of a trie
FirstBytes(trie) == {t[1] : t \in DOMAIN trie}

\* the tokens of a trie whose terminal node carries tokenType
TokensOfType(trie, tokenType) == {t \in DOMAIN trie : trie[t].Type = tokenType}


\* ------------------------------------------------------ the language table
\* "if", "//" and "#"
TokenPool == {<<105, 102>>, <<47, 47>>, <<35>>}

\* "/*" ... "*/" and "\"" ... "\""
CommentPair == <<(<<47, 42>>), (<<42, 47>>)>>
QuotePair == <<(<<34>>), (<<34>>)>>
PairLists == {<<>>, <<CommentPair>>, <<QuotePair>>, <<CommentPair, QuotePair>>}

ExtPool == {"x", "y"}

\* one language whose token lists vary
TokenLanguages ==
    [Extensions : {<<"x">>},
     ComplexityChecks : SeqsUpTo(TokenPool, MaxTokens),
     LineComment : SeqsUpTo(TokenPool, MaxTokens),
     MultiLine : PairLists,
     Quotes : PairLists,
     NestedMultiLine : BOOLEAN]
TokenTables == {[n \in {"A"} |-> l] : l \in TokenLanguages}

\* two languages whose extension lists vary (and may overlap)
ExtLanguages ==
    [Extensions : SeqsUpTo(ExtPool, MaxExts),
     ComplexityChecks : {<< <<105, 102>> >>},
     LineComment : {<< <<47, 47>> >>},
     MultiLine : {<<>>},
     Quotes : {<<>>},
     NestedMultiLine : {FALSE}]
ExtensionTables == [{"A", "B"} -> ExtLanguages]

\* the table of a full run: a C-like language and a shell-like one
CLike ==
    [Extensions |-> <<"x">>,
     ComplexityChecks |-> << <<105, 102>> >>,
     LineComment |-> << <<47, 47>> >>,
     MultiLine |-> <<CommentPair>>,
     Quotes |-> <<QuotePair>>,
     NestedMultiLine |-> FALSE]
ShLike ==
    [Extensions |-> <<"y">>,
     ComplexityChecks |-> << <<105, 102>> >>,
     LineComment |-> << <<35>> >>,
     MultiLine |-> <<>>,
     Quotes |-> <<QuotePair>>,
     NestedMultiLine |-> FALSE]
RunTables == {[n \in {"A", "B"} |-> IF n = "A" THEN CLike ELSE ShLike]}

\* the embedded constant `languages`: it decodes to a table, or the base64
\* decoding fails, or the JSON unmarshalling fails
Embedded(tables) ==
    {[decode |-> "ok", db |-> d] : d \in tables}
        \cup {[decode |-> e, db |-> EmptyMap] : e \in {"base64", "json"}}

VARIABLES
    Languages, Complexity, More, SortBy, FileOutput, DirFilePaths,
    FileListQueueSize, FileReadContentJobQueueSize, FileSummaryJobQueueSize,
    FileReadJobWorkers, FileProcessJobWorkers,
    languages, ExtensionToLanguage, LanguageFeatures,
    pc, stdout, written, fileCount,
    chans, walkStarted, walkerNext, emitted,
    workersStarted, readerHeld, processorHeld, result

flags == <<Languages, Complexity, More, SortBy, FileOutput, DirFilePaths,
           FileListQueueSize, FileReadContentJobQueueSize, FileSummaryJobQueueSize,
           FileReadJobWorkers, FileProcessJobWorkers>>
tables == <<ExtensionToLanguage, LanguageFeatures>>
output == <<stdout, written>>
pipeline == <<chans, walkStarted, walkerNext, emitted, workersStarted,
              readerHeld, processorHeld, result>>
vars == <<flags, languages, tables, pc, output, fileCount, pipeline>>

\* ------------------------------------------------------------ loadDatabase
loadDatabase_NoJsonCheck(l) ==
    IF l.decode = "base64"
    THEN [panic |-> "failed to base64 decode languages", database |-> EmptyMap]
    ELSE [panic |-> "", database |-> l.db]

\* the database, or the panic of a failed decoding
loadDatabase(l) ==
    IF l.decode = "base64"
    THEN [panic |-> "failed to base64 decode languages", database |-> EmptyMap]
    ELSE IF l.decode = "json"
    THEN [panic |-> "languages json invalid", database |-> EmptyMap]
    ELSE [panic |-> "", database |-> l.db]

\* -------------------------------------------------------- ProcessConstants
RECURSIVE ExtensionLoop(_, _, _)
\* for name, value := range database { for _, ext := range value.Extensions {...} }
\* with the keys visited in `order`
ExtensionLoop(order, database, m) ==
    IF order = <<>> THEN m
    ELSE LET name == Head(order)
             exts == database[name].Extensions
             RECURSIVE inner(_, _)
             inner(i, mm) ==
                 IF i > Len(exts) THEN mm ELSE inner(i + 1, Put(mm, exts[i], name))
         IN  ExtensionLoop(Tail(order), database, inner(1, m))

RECURSIVE ComplexityLoop_AlwaysInToken(_, _, _)
ComplexityLoop_AlwaysInToken(checks, cx, st) ==
    IF checks = <<>> THEN st
    ELSE LET v == Head(checks)
         IN  ComplexityLoop_AlwaysInToken(Tail(checks), cx,
                 [mask |-> BitOr(st.mask, v[1]),
                  trie |-> Insert(st.trie, T_COMPLEXITY, v),
                  tokenTrie |-> Insert(st.tokenTrie, T_COMPLEXITY, v)])

RECURSIVE ComplexityLoop(_, _, _)
\* for _, v := range value.ComplexityChecks, cx being the Complexity flag
ComplexityLoop(checks, cx, st) ==
    IF checks = <<>> THEN st
    ELSE LET v == Head(checks)
         IN  ComplexityLoop(Tail(checks), cx,
                 [mask |-> BitOr(st.mask, v[1]),
                  trie |-> Insert(st.trie, T_COMPLEXITY, v),
                  tokenTrie |-> IF ~cx THEN Insert(st.tokenTrie, T_COMPLEXITY, v)
                                ELSE st.tokenTrie])

RECURSIVE LineCommentLoop_NoMask(_, _)
LineCommentLoop_NoMask(list, st) ==
    IF list = <<>> THEN st
    ELSE LET v == Head(list)
         IN  LineCommentLoop_NoMask(Tail(list),
                 [mask |-> st.mask,
                  trie |-> Insert(st.trie, T_SLCOMMENT, v),
                  tokenTrie |-> Insert(st.tokenTrie, T_SLCOMMENT, v)])

RECURSIVE LineCommentLoop(_, _)
\* for _, v := range value.LineComment
LineCommentLoop(list, st) ==
    IF list = <<>> THEN st
    ELSE LET v == Head(list)
         IN  LineCommentLoop(Tail(list),
                 [mask |-> BitOr(st.mask, v[1]),
                  trie |-> Insert(st.trie, T_SLCOMMENT, v),
                  tokenTrie |-> Insert(st.tokenTrie, T_SLCOMMENT, v)])

RECURSIVE PairLoop(_, _, _)
\* for _, v := range value.MultiLine, and for _, v := range value.Quotes
PairLoop(list, tokenType, st) ==
    IF list = <<>> THEN st
    ELSE LET v == Head(list)
         IN  PairLoop(Tail(list), tokenType,
                 [mask |-> BitOr(st.mask, v[1][1]),
                  trie |-> InsertClose(st.trie, tokenType, v[1], v[2]),
                  tokenTrie |-> InsertClose(st.tokenTrie, tokenType, v[1], v[2])])

ProcessMaskOf_NoStrings(cx, complexityMask, singleLineCommentMask, multiLineCommentMask, stringMask) ==
    BitOr(BitOr(IF ~cx THEN BitOr(0, complexityMask) ELSE 0,
                singleLineCommentMask), multiLineCommentMask)

\* processMask := byte(0) and its four updates
ProcessMaskOf(cx, complexityMask, singleLineCommentMask, multiLineCommentMask, stringMask) ==
    BitOr(BitOr(BitOr(IF ~cx THEN BitOr(0, complexityMask) ELSE 0,
                      singleLineCommentMask), multiLineCommentMask), stringMask)

\* the body of the second loop: the LanguageFeature of one language
BuildLanguageFeature(value, cx) ==
    LET c == ComplexityLoop(value.ComplexityChecks, cx,
                 [mask |-> 0, trie |-> EmptyTrie, tokenTrie |-> EmptyTrie])
        s == LineCommentLoop(value.LineComment,
                 [mask |-> 0, trie |-> EmptyTrie, tokenTrie |-> c.tokenTrie])
        m == PairLoop(value.MultiLine, T_MLCOMMENT,
                 [mask |-> 0, trie |-> EmptyTrie, tokenTrie |-> s.tokenTrie])
        q == PairLoop(value.Quotes, T_STRING,
                 [mask |-> 0, trie |-> EmptyTrie, tokenTrie |-> m.tokenTrie])
    IN  [Complexity |-> c.trie,
         MultiLineComments |-> m.trie,
         SingleLineComments |-> s.trie,
         Strings |-> q.trie,
         Tokens |-> q.tokenTrie,
         Nested |-> value.NestedMultiLine,
         ComplexityCheckMask |-> c.mask,
         MultiLineCommentMask |-> m.mask,
         SingleLineCommentMask |-> s.mask,
         StringCheckMask |-> q.mask,
         ProcessMask |-> ProcessMaskOf(cx, c.mask, s.mask, m.mask, q.mask)]

RECURSIVE FeatureLoop(_, _, _, _)
\* for name, value := range database { ...; LanguageFeatures[name] = ... }
FeatureLoop(order, database, cx, m) ==
    IF order = <<>> THEN m
    ELSE FeatureLoop(Tail(order), database, cx,
             Put(m, Head(order), BuildLanguageFeature(database[Head(order)], cx)))

\* ProcessConstants: it panics in loadDatabase, or fills both maps, each loop
\* visiting the database in an order of Go's choosing
ProcessConstants ==
    /\ pc = "ProcessConstants"
    /\ LET db == loadDatabase(languages) IN
       \/ /\ db.panic # ""
          /\ pc' = "panic"
          /\ UNCHANGED tables
       \/ /\ db.panic = ""
          /\ \E o1, o2 \in Orders(DOMAIN db.database) :
               /\ ExtensionToLanguage' = ExtensionLoop(o1, db.database, ExtensionToLanguage)
               /\ LanguageFeatures' = FeatureLoop(o2, db.database, Complexity, LanguageFeatures)
          /\ pc' = "processFlags"
    /\ UNCHANGED <<flags, languages, output, fileCount, pipeline>>

\* ------------------------------------------------------------ processFlags
processFlagsComplexity_Or(more, complexity) ==
    IF more \/ complexity THEN FALSE ELSE complexity

\* if More && Complexity { Complexity = false }
processFlagsComplexity(more, complexity) ==
    IF more /\ complexity THEN FALSE ELSE complexity

processFlags ==
    /\ pc = "processFlags"
    /\ Complexity' = processFlagsComplexity(More, Complexity)
    /\ pc' = "setup"
    /\ UNCHANGED <<Languages, More, SortBy, FileOutput, DirFilePaths,
                   FileListQueueSize, FileReadContentJobQueueSize,
                   FileSummaryJobQueueSize, FileReadJobWorkers, FileProcessJobWorkers>>
    /\ UNCHANGED <<languages, tables, output, fileCount, pipeline>>


\* ---------------------------------------------------------- printLanguages
\* sort.Slice by lower-cased name, over the names of the model
NameOrder == <<"A", "B">>

\* the lines printLanguages prints: "name (ext,ext)" in name order
LanguageListing(database) ==
    LET names == SelectSeq(NameOrder, LAMBDA n : n \in DOMAIN database)
    IN  [i \in DOMAIN names |-> <<names[i], database[names[i]].Extensions>>]

\* strings.ToLower over the sort keys of the model
ToLower(s) == IF s = "Name" THEN "name" ELSE s

\* ----------------------------------------------------------------- Process
\* the channel each goroutine of Process is handed
WalkerOutput == "fileListQueue"
ReaderInput == "fileListQueue"
ReaderOutput == "fileReadContentJobQueue"
ProcessorInput == "fileReadContentJobQueue"
ProcessorOutput_Loop == "fileReadContentJobQueue"
ProcessorOutput == "fileSummaryJobQueue"
SummarizeInput_Early == "fileReadContentJobQueue"
SummarizeInput == "fileSummaryJobQueue"

\* make(chan *FileJob, size)
MakeChan(size) == [cap |-> size, buf |-> <<>>, closed |-> FALSE]

Send(c, x) == [c EXCEPT !.buf = Append(@, x)]
Receive(c) == [c EXCEPT !.buf = Tail(@)]
Close(c) == [c EXCEPT !.closed = TRUE]
CanSend(c) == ~c.closed /\ Len(c.buf) < c.cap
CanReceive(c) == c.buf # <<>>
Drained(c) == c.closed /\ c.buf = <<>>

\* if Languages { printLanguages(); return }
ProcessEntry ==
    /\ pc = "Process"
    /\ \/ /\ Languages
          /\ LET db == loadDatabase(languages) IN
             \/ /\ db.panic # ""
                /\ pc' = "panic"
                /\ UNCHANGED stdout
             \/ /\ db.panic = ""
                /\ stdout' = Append(stdout, <<"languages", LanguageListing(db.database)>>)
                /\ pc' = "done"
       \/ /\ ~Languages
          /\ pc' = "ProcessConstants"
          /\ UNCHANGED stdout
    /\ UNCHANGED <<flags, languages, tables, written, fileCount, pipeline>>

\* the default path, the lower-cased sort key and the three channels
Setup ==
    /\ pc = "setup"
    /\ DirFilePaths' = IF Len(DirFilePaths) = 0 THEN Append(DirFilePaths, ".")
                       ELSE DirFilePaths
    /\ SortBy' = ToLower(SortBy)
    /\ chans' = [q \in {"fileListQueue", "fileReadContentJobQueue", "fileSummaryJobQueue"} |->
                   IF q = "fileListQueue" THEN MakeChan(FileListQueueSize)
                   ELSE IF q = "fileReadContentJobQueue"
                        THEN MakeChan(FileReadContentJobQueueSize)
                        ELSE MakeChan(FileSummaryJobQueueSize)]
    /\ pc' = "spawn"
    /\ UNCHANGED <<Languages, Complexity, More, FileOutput,
                   FileListQueueSize, FileReadContentJobQueueSize,
                   FileSummaryJobQueueSize, FileReadJobWorkers, FileProcessJobWorkers>>
    /\ UNCHANGED <<languages, tables, output, fileCount>>
    /\ UNCHANGED <<walkStarted, walkerNext, emitted, workersStarted,
                   readerHeld, processorHeld, result>>

\* the root paths a walk is started for: go walkDirectoryParallel(DirFilePaths[0], ...)
WalkedRoots(paths) == {paths[1]}

\* the three go statements
Spawn ==
    /\ pc = "spawn"
    /\ walkStarted' = WalkedRoots(DirFilePaths)
    /\ walkerNext' = 1
    /\ workersStarted' = TRUE
    /\ pc' = "fileSummarize"
    /\ UNCHANGED <<flags, languages, tables, output, fileCount>>
    /\ UNCHANGED <<chans, emitted, readerHeld, processorHeld, result>>

\* the walker puts the next file of its root on its channel, blocking while
\* the channel is full
WalkerEmit ==
    /\ walkStarted # {}
    /\ walkerNext <= fileCount
    /\ CanSend(chans[WalkerOutput])
    /\ \E root \in walkStarted :
         LET job == <<root, walkerNext>> IN
         /\ chans' = [chans EXCEPT ![WalkerOutput] = Send(@, job)]
         /\ emitted' = emitted \cup {job}
    /\ walkerNext' = walkerNext + 1
    /\ UNCHANGED <<flags, languages, tables, pc, output, fileCount>>
    /\ UNCHANGED <<walkStarted, workersStarted, readerHeld, processorHeld, result>>

\* the walker closes its channel once the walk is over
WalkerClose ==
    /\ walkStarted # {}
    /\ walkerNext > fileCount
    /\ ~chans[WalkerOutput].closed
    /\ chans' = [chans EXCEPT ![WalkerOutput] = Close(@)]
    /\ UNCHANGED <<flags, languages, tables, pc, output, fileCount>>
    /\ UNCHANGED <<walkStarted, walkerNext, emitted, workersStarted,
                   readerHeld, processorHeld, result>>

\* an idle reader worker receives a job
ReaderTake ==
    /\ workersStarted
    /\ Cardinality(readerHeld) < FileReadJobWorkers
    /\ CanReceive(chans[ReaderInput])
    /\ readerHeld' = readerHeld \cup {Head(chans[ReaderInput].buf)}
    /\ chans' = [chans EXCEPT ![ReaderInput] = Receive(@)]
    /\ UNCHANGED <<flags, languages, tables, pc, output, fileCount>>
    /\ UNCHANGED <<walkStarted, walkerNext, emitted, workersStarted, processorHeld, result>>

\* a reader worker sends the job it read, blocking while the channel is full
ReaderPut ==
    /\ workersStarted
    /\ CanSend(chans[ReaderOutput])
    /\ \E job \in readerHeld :
         /\ readerHeld' = readerHeld \ {job}
         /\ chans' = [chans EXCEPT ![ReaderOutput] = Send(@, job)]
    /\ UNCHANGED <<flags, languages, tables, pc, output, fileCount>>
    /\ UNCHANGED <<walkStarted, walkerNext, emitted, workersStarted, processorHeld, result>>

\* every reader worker has left its loop: the output channel is closed
ReaderClose ==
    /\ workersStarted
    /\ Drained(chans[ReaderInput])
    /\ readerHeld = {}
    /\ ~chans[ReaderOutput].closed
    /\ chans' = [chans EXCEPT ![ReaderOutput] = Close(@)]
    /\ UNCHANGED <<flags, languages, tables, pc, output, fileCount>>
    /\ UNCHANGED <<walkStarted, walkerNext, emitted, workersStarted,
                   readerHeld, processorHeld, result>>

\* an idle processor worker receives a job
ProcessorTake ==
    /\ workersStarted
    /\ Cardinality(processorHeld) < FileProcessJobWorkers
    /\ CanReceive(chans[ProcessorInput])
    /\ processorHeld' = processorHeld \cup {Head(chans[ProcessorInput].buf)}
    /\ chans' = [chans EXCEPT ![ProcessorInput] = Receive(@)]
    /\ UNCHANGED <<flags, languages, tables, pc, output, fileCount>>
    /\ UNCHANGED <<walkStarted, walkerNext, emitted, workersStarted, readerHeld, result>>

\* a processor worker sends the job it counted, blocking while the channel is full
ProcessorPut ==
    /\ workersStarted
    /\ CanSend(chans[ProcessorOutput])
    /\ \E job \in processorHeld :
         /\ processorHeld' = processorHeld \ {job}
         /\ chans' = [chans EXCEPT ![ProcessorOutput] = Send(@, job)]
    /\ UNCHANGED <<flags, languages, tables, pc, output, fileCount>>
    /\ UNCHANGED <<walkStarted, walkerNext, emitted, workersStarted, readerHeld, result>>

\* every processor worker has left its loop: the output channel is closed
ProcessorClose ==
    /\ workersStarted
    /\ Drained(chans[ProcessorInput])
    /\ processorHeld = {}
    /\ ~chans[ProcessorOutput].closed
    /\ chans' = [chans EXCEPT ![ProcessorOutput] = Close(@)]
    /\ UNCHANGED <<flags, languages, tables, pc, output, fileCount>>
    /\ UNCHANGED <<walkStarted, walkerNext, emitted, workersStarted,
                   readerHeld, processorHeld, result>>

\* fileSummarize, on Process's own goroutine: it receives a job
SummarizeTake ==
    /\ pc = "fileSummarize"
    /\ CanReceive(chans[SummarizeInput])
    /\ result' = Append(result, Head(chans[SummarizeInput].buf))
    /\ chans' = [chans EXCEPT ![SummarizeInput] = Receive(@)]
    /\ UNCHANGED <<flags, languages, tables, pc, output, fileCount>>
    /\ UNCHANGED <<walkStarted, walkerNext, emitted, workersStarted,
                   readerHeld, processorHeld>>

\* fileSummarize sees its channel closed and empty, and returns the result
SummarizeEnd ==
    /\ pc = "fileSummarize"
    /\ Drained(chans[SummarizeInput])
    /\ pc' = "report"
    /\ UNCHANGED <<flags, languages, tables, output, fileCount, pipeline>>

\* fmt.Println(result), or ioutil.WriteFile(FileOutput, result) and a note
Report ==
    /\ pc = "report"
    /\ \/ /\ FileOutput = ""
          /\ stdout' = Append(stdout, <<"result", result>>)
          /\ UNCHANGED written
       \/ /\ FileOutput # ""
          /\ written' = <<FileOutput, result>>
          /\ stdout' = Append(stdout, <<"results written to", FileOutput>>)
    /\ pc' = "done"
    /\ UNCHANGED <<flags, languages, tables, fileCount, pipeline>>

\* --------------------------------------------------------- specifications
RootPool == <<"a", "b", "c", "d">>

NoFile == <<>>

Idle ==
    /\ ExtensionToLanguage = EmptyMap
    /\ LanguageFeatures = EmptyMap
    /\ stdout = <<>>
    /\ written = NoFile
    /\ chans = EmptyMap
    /\ walkStarted = {}
    /\ walkerNext = 0
    /\ emitted = {}
    /\ workersStarted = FALSE
    /\ readerHeld = {}
    /\ processorHeld = {}
    /\ result = <<>>

\* a run of Process
Init ==
    /\ Languages \in BOOLEAN
    /\ Complexity \in BOOLEAN
    /\ More \in BOOLEAN
    /\ SortBy = "Name"
    /\ FileOutput \in {"", "out.txt"}
    /\ DirFilePaths \in {SubSeq(RootPool, 1, n) : n \in 0..MaxPaths}
    /\ FileListQueueSize \in 1..MaxCap
    /\ FileReadContentJobQueueSize \in 1..MaxCap
    /\ FileSummaryJobQueueSize \in 1..MaxCap
    /\ FileReadJobWorkers \in 1..MaxWorkers
    /\ FileProcessJobWorkers \in 1..MaxWorkers
    /\ languages \in Embedded(RunTables)
    /\ fileCount \in 0..MaxFiles
    /\ pc = "Process"
    /\ Idle

Next ==
    \/ ProcessEntry
    \/ ProcessConstants
    \/ processFlags
    \/ Setup
    \/ Spawn
    \/ WalkerEmit
    \/ WalkerClose
    \/ ReaderTake
    \/ ReaderPut
    \/ ReaderClose
    \/ ProcessorTake
    \/ ProcessorPut
    \/ ProcessorClose
    \/ SummarizeTake
    \/ SummarizeEnd
    \/ Report

Spec == Init /\ [][Next]_vars

\* the Go scheduler runs some goroutine whenever one can take a step; no step
\* of a run is ever undone, so this is all the progress the pipeline needs
Fairness == WF_vars(Next)

\* the runs whose progress is checked: every channel capacity, pool size and
\* file count of the model, the flags that do not reach the pipeline fixed
FairInit ==
    /\ Languages \in BOOLEAN
    /\ Complexity = FALSE
    /\ More = FALSE
    /\ SortBy = "Name"
    /\ FileOutput \in {"", "out.txt"}
    /\ DirFilePaths = <<>>
    /\ FileListQueueSize \in 1..MaxCap
    /\ FileReadContentJobQueueSize \in 1..MaxCap
    /\ FileSummaryJobQueueSize \in 1..MaxCap
    /\ FileReadJobWorkers \in 1..MaxWorkers
    /\ FileProcessJobWorkers \in 1..MaxWorkers
    /\ languages \in Embedded(RunTables)
    /\ fileCount \in 0..MaxFiles
    /\ pc = "Process"
    /\ Idle

FairSpec == FairInit /\ [][Next]_vars /\ Fairness

\* a call of ProcessConstants on its own, over the generated tables
ConstantsInit ==
    /\ Languages = FALSE
    /\ Complexity \in BOOLEAN
    /\ More = FALSE
    /\ SortBy = "Name"
    /\ FileOutput = ""
    /\ DirFilePaths = <<>>
    /\ FileListQueueSize = 1
    /\ FileReadContentJobQueueSize = 1
    /\ FileSummaryJobQueueSize = 1
    /\ FileReadJobWorkers = 1
    /\ FileProcessJobWorkers = 1
    /\ languages \in Embedded(TokenTables \cup ExtensionTables)
    /\ fileCount = 0
    /\ pc = "ProcessConstants"
    /\ Idle

ConstantsNext == ProcessConstants

ConstantsSpec == ConstantsInit /\ [][ConstantsNext]_vars


\* ------------------------------------------------------------- properties
\* bit k of byte b
HasBit(b, k) == (b \div (2 ^ k)) % 2 = 1

RECURSIVE OrBitsFrom(_, _)
OrBitsFrom(S, k) ==
    IF 2 ^ k >= ByteRange THEN 0
    ELSE (IF \E b \in S : HasBit(b, k) THEN 2 ^ k ELSE 0) + OrBitsFrom(S, k + 1)

\* the byte that has exactly the bits set in some byte of S
OrOfSet(S) == OrBitsFrom(S, 0)

ComplexityTokens(value) == Range(value.ComplexityChecks)
LineTokens(value) == Range(value.LineComment)
MultiLineOpeners(value) == {value.MultiLine[i][1] : i \in DOMAIN value.MultiLine}
QuoteOpeners(value) == {value.Quotes[i][1] : i \in DOMAIN value.Quotes}
First(tokens) == {t[1] : t \in tokens}

\* ProcessConstants has just returned: the flags are those it ran with
Built == pc = "processFlags"

CategoryMasksOk(value, f) ==
    /\ f.ComplexityCheckMask = OrOfSet(First(ComplexityTokens(value)))
    /\ f.SingleLineCommentMask = OrOfSet(First(LineTokens(value)))
    /\ f.MultiLineCommentMask = OrOfSet(First(MultiLineOpeners(value)))
    /\ f.StringCheckMask = OrOfSet(First(QuoteOpeners(value)))

\* C1, as stated: complexity tokens are in Tokens exactly when the complexity
\* calculation is disabled (the Complexity flag is true), and otherwise only
\* in the Complexity trie.
C1_TokensIffDisabled ==
    Built =>
        \A name \in DOMAIN languages.db :
            \A t \in ComplexityTokens(languages.db[name]) :
                /\ t \in DOMAIN LanguageFeatures[name].Complexity
                /\ t \in TokensOfType(LanguageFeatures[name].Tokens, T_COMPLEXITY)
                       <=> Complexity

\* C1, amended: every complexity token is in the Complexity trie; it is in
\* Tokens exactly when the Complexity flag is false (the calculation is
\* enabled), typed T_COMPLEXITY unless a comment marker or an opener of the
\* same spelling replaced the type; with the flag true no node of Tokens is
\* typed T_COMPLEXITY.
C1_TokensIffEnabled ==
    Built =>
        \A name \in DOMAIN languages.db :
            LET value == languages.db[name]
                f == LanguageFeatures[name]
                others == LineTokens(value) \cup MultiLineOpeners(value)
                              \cup QuoteOpeners(value)
            IN  /\ \A t \in ComplexityTokens(value) :
                       /\ t \in TokensOfType(f.Complexity, T_COMPLEXITY)
                       /\ t \in DOMAIN f.Tokens <=> (~Complexity \/ t \in others)
                       /\ t \in TokensOfType(f.Tokens, T_COMPLEXITY)
                              <=> (~Complexity /\ t \notin others)
                /\ Complexity => TokensOfType(f.Tokens, T_COMPLEXITY) = {}
                /\ DOMAIN f.Complexity = ComplexityTokens(value)

\* C1 witness: built with the flag false, a complexity token typed
\* T_COMPLEXITY in Tokens and another one replaced by a comment marker
C1_Witness ==
    /\ Built
    /\ ~Complexity
    /\ \E name \in DOMAIN languages.db :
           /\ TokensOfType(LanguageFeatures[name].Tokens, T_COMPLEXITY) # {}
           /\ ComplexityTokens(languages.db[name]) \cap LineTokens(languages.db[name]) # {}

\* C2, as stated: each category mask is the OR of the first bytes of the
\* category's tokens, and ProcessMask is the OR of all four, whatever the
\* Complexity flag.
C2_ProcessMaskAllFour ==
    Built =>
        \A name \in DOMAIN languages.db :
            LET f == LanguageFeatures[name] IN
            /\ CategoryMasksOk(languages.db[name], f)
            /\ f.ProcessMask = OrOfSet({f.ComplexityCheckMask, f.SingleLineCommentMask,
                                        f.MultiLineCommentMask, f.StringCheckMask})

\* C2, amended: each category mask is the OR of the first bytes of the
\* category's tokens; ProcessMask is the OR of the single-line, multi-line
\* and string masks, and of the complexity mask too exactly when the
\* Complexity flag is false.
C2_ProcessMaskByFlag ==
    Built =>
        \A name \in DOMAIN languages.db :
            LET f == LanguageFeatures[name] IN
            /\ CategoryMasksOk(languages.db[name], f)
            /\ f.ProcessMask =
                   OrOfSet({f.SingleLineCommentMask, f.MultiLineCommentMask, f.StringCheckMask}
                               \cup (IF Complexity THEN {} ELSE {f.ComplexityCheckMask}))

\* C2 witness: built with the flag true, two complexity first bytes, a
\* string mask, and a complexity mask that ProcessMask does not include
C2_Witness ==
    /\ Built
    /\ Complexity
    /\ \E name \in DOMAIN languages.db :
           LET f == LanguageFeatures[name] IN
           /\ Cardinality(First(ComplexityTokens(languages.db[name]))) > 1
           /\ f.StringCheckMask # 0
           /\ BitAnd(f.ProcessMask, f.ComplexityCheckMask) # f.ComplexityCheckMask

AllBytes == 0..(ByteRange - 1)

\* C3, as stated: a byte that shares no bit with ProcessMask starts no token
\* of any of the language's five tries.
C3_NoFalseNegativeAnyTrie ==
    Built =>
        \A name \in DOMAIN languages.db :
            LET f == LanguageFeatures[name] IN
            \A b \in AllBytes :
                BitAnd(b, f.ProcessMask) = 0 =>
                    b \notin FirstBytes(f.Tokens) \cup FirstBytes(f.Complexity)
                                 \cup FirstBytes(f.SingleLineComments)
                                 \cup FirstBytes(f.MultiLineComments)
                                 \cup FirstBytes(f.Strings)

\* C3, amended: a non-zero byte that shares no bit with ProcessMask starts no
\* token of Tokens, nor of the comment and string tries, nor, when the
\* Complexity flag is false, of the Complexity trie. (Stated from the tokens'
\* side: every non-zero first byte of such a token shares a bit with
\* ProcessMask.)
C3_NoFalseNegativeTokens ==
    Built =>
        \A name \in DOMAIN languages.db :
            LET f == LanguageFeatures[name]
                recognised == FirstBytes(f.Tokens) \cup FirstBytes(f.SingleLineComments)
                                  \cup FirstBytes(f.MultiLineComments)
                                  \cup FirstBytes(f.Strings)
                                  \cup (IF Complexity THEN {} ELSE FirstBytes(f.Complexity))
            IN  \A b \in recognised \ {0} : BitAnd(b, f.ProcessMask) # 0

\* C3 witness: a byte is rejected by a mask that is not empty, while the
\* Complexity trie holds tokens the mask leaves out
C3_Witness ==
    /\ Built
    /\ Complexity
    /\ \E name \in DOMAIN languages.db :
           LET f == LanguageFeatures[name] IN
           /\ f.ProcessMask # 0
           /\ f.Tokens # EmptyTrie
           /\ f.Complexity # EmptyTrie
           /\ BitAnd(f.ProcessMask, f.ComplexityCheckMask) # f.ComplexityCheckMask
           /\ \E b \in AllBytes \ {0} : BitAnd(b, f.ProcessMask) = 0

\* C4: once the workers are started, a walk has been started for every
\* entry of DirFilePaths.
C4_EveryRootWalked ==
    workersStarted => \A i \in DOMAIN DirFilePaths : DirFilePaths[i] \in walkStarted

\* the jobs in a channel, in a set
InChan(q) == Range(chans[q].buf)

\* C5: a stage's output channel is closed only when its input channel is
\* closed and empty and its workers hold nothing; when fileSummarize has
\* returned, every job the walker emitted is in the result exactly once and
\* nothing is left in a channel or a worker.
C5_EndOfStream ==
    workersStarted =>
        /\ chans["fileReadContentJobQueue"].closed =>
               Drained(chans["fileListQueue"]) /\ readerHeld = {}
        /\ chans["fileSummaryJobQueue"].closed =>
               /\ chans["fileReadContentJobQueue"].closed
               /\ processorHeld = {}
               /\ InChan("fileReadContentJobQueue") = {}
        /\ chans["fileListQueue"].closed => walkerNext > fileCount
        /\ pc \in {"report", "done"} =>
               /\ Range(result) = emitted
               /\ Len(result) = Cardinality(emitted)
               /\ Cardinality(emitted) = fileCount
               /\ \A q \in DOMAIN chans : Drained(chans[q])
               /\ readerHeld = {} /\ processorHeld = {}

\* C5 witness: fileSummarize has returned every job of a walk of two files
\* or more that went through a pool of two workers or more
C5_Witness ==
    /\ pc = "report"
    /\ fileCount >= 2
    /\ Len(result) = fileCount
    /\ FileReadJobWorkers >= 2

\* the report of a run: the result printed, or written to FileOutput
Reported ==
    \/ \E i \in DOMAIN stdout : stdout[i][1] = "result"
    \/ written # NoFile

TableLoads == languages.decode = "ok"

NothingStarted ==
    /\ chans = EmptyMap
    /\ ~workersStarted
    /\ walkStarted = {}
    /\ emitted = {}
    /\ result = <<>>
    /\ stdout = <<>>
    /\ written = NoFile

\* C7: when the table does not decode, Process never gets past loadDatabase:
\* the call that loads it panics, and no channel, worker, file job or output
\* ever exists.
C7_BadTableIsFatal ==
    [][~TableLoads =>
          /\ NothingStarted /\ NothingStarted'
          /\ pc = "ProcessConstants" => pc' = "panic"
          /\ pc = "Process" => pc' = (IF Languages THEN "panic" ELSE "ProcessConstants")]_vars

\* C7 witness: the panic of a table whose JSON is invalid
C7_Witness ==
    /\ pc = "panic"
    /\ languages.decode = "json"
    /\ ~Languages

\* C8: processFlags leaves Complexity false when More is set, leaves it as it
\* was when More is not set, and changes no other flag.
C8_ProcessFlagsFrame ==
    [][pc = "processFlags" =>
          /\ More => ~Complexity'
          /\ ~More => Complexity' = Complexity
          /\ UNCHANGED <<Languages, More, SortBy, FileOutput, DirFilePaths,
                         FileListQueueSize, FileReadContentJobQueueSize,
                         FileSummaryJobQueueSize, FileReadJobWorkers,
                         FileProcessJobWorkers>>]_vars

\* C8 witness: processFlags has run with More set, on features built while
\* Complexity was still true
C8_Witness ==
    /\ pc = "setup"
    /\ More
    /\ ~Complexity
    /\ \E name \in DOMAIN LanguageFeatures :
           /\ LanguageFeatures[name].Complexity # EmptyTrie
           /\ TokensOfType(LanguageFeatures[name].Tokens, T_COMPLEXITY) = {}

\* C9: when the workers are about to be started, every language has its
\* complexity tokens in Tokens and its complexity mask in ProcessMask
\* exactly when the Complexity flag is false.
C9_FeaturesMatchFlag ==
    pc = "spawn" =>
        \A name \in DOMAIN LanguageFeatures :
            LET f == LanguageFeatures[name] IN
            f.Complexity # EmptyTrie =>
                ((/\ DOMAIN f.Complexity \subseteq DOMAIN f.Tokens
                  /\ BitAnd(f.ProcessMask, f.ComplexityCheckMask) = f.ComplexityCheckMask)
                     <=> ~Complexity)

\* C10: the extension map does not depend on the order in which the table
\* is visited, and maps each listed extension to a language that lists it.
C10_ExtensionMapDeterministic ==
    Built =>
        /\ \A o \in Orders(DOMAIN languages.db) :
               ExtensionToLanguage = ExtensionLoop(o, languages.db, EmptyMap)
        /\ \A name \in DOMAIN languages.db :
               \A ext \in Range(languages.db[name].Extensions) :
                   /\ ext \in DOMAIN ExtensionToLanguage
                   /\ ext \in Range(languages.db[ExtensionToLanguage[ext]].Extensions)

====
